---- MODULE Spec2Model ----
(***************************************************************************)
(* Model of src/cpi_update.py: a Dash page over a CPI table that is loaded *)
(* once by one SQL query, five callbacks that derive menu options, render  *)
(* the chart (update_plot) and export it (download_plot).                  *)
(*                                                                         *)
(* Encoding.  Python strings that the code compares or slices character by *)
(* character (year_month, year_month2) are sequences of character codes.   *)
(* Names (state, sector, grp, base_year, series, subgroup, plot_type) are  *)
(* TLA+ strings; the code only tests them for equality.  None and SQL NULL *)
(* are the tokens None and NULL.  index and inflation are floats in the    *)
(* program and small integers here; the code only copies them.  The value  *)
(* of the multi-select year menu is a list (or the string 'Select All');   *)
(* the code only tests membership in it, so it is a set of year values     *)
(* with the token SelectAll standing for the string 'Select All'.          *)
(*                                                                         *)
(* The query's SELECT drops the series column; the rows of the model keep  *)
(* it so that the series a loaded row came from can be told.  No callback  *)
(* reads it.  Years have four digits, as line 45 assumes when it slices    *)
(* year_month at position 4.                                               *)
(***************************************************************************)
EXTENDS Integers, Sequences, FiniteSets, TLC

\* ------------------------------------------------------------------ bounds
MaxRows == 3        \* rows of cpi_fact the database holds
MaxEvents == 3      \* menu changes and button clicks in one session

\* --------------------------------------------------------------- constants
None == "<None>"
NULL == "<NULL>"
SelectAll == 0
default_state == "All India"
default_sector == "Combined"
default_group == "General"
default_plot_type == "Index"
default_base == "2012"
default_years == {SelectAll}

\* ----------------------------------------------------------------- strings
Digit(d) == 48 + d
Dash == 45

RECURSIVE IntToStr(_)
\* str(n) for a non-negative integer
IntToStr(n) == IF n < 10 THEN <<Digit(n)>>
               ELSE IntToStr(n \div 10) \o <<Digit(n % 10)>>

\* zfill that pads nothing
zfill_NoPad(s, width) == s

RECURSIVE zfill(_, _)
\* str.zfill(width): pad with '0' on the left up to width
zfill(s, width) == IF Len(s) >= width THEN s ELSE zfill(<<Digit(0)>> \o s, width)

\* s[:n] and s[n:] of Python
Prefix(s, n) == SubSeq(s, 1, IF n < Len(s) THEN n ELSE Len(s))
Suffix(s, n) == SubSeq(s, n + 1, Len(s))

RECURSIVE StrLess(_, _)
\* a < b in Python's string order (lexicographic by character code)
StrLess(a, b) ==
    IF b = <<>> THEN FALSE
    ELSE IF a = <<>> THEN TRUE
    ELSE IF Head(a) # Head(b) THEN Head(a) < Head(b)
    ELSE StrLess(Tail(a), Tail(b))

\* ------------------------------------------------------------ the database
FactRow(series, year, month, state, sector, grp, subgroup, index, inflation, base_year) ==
    [series |-> series, year |-> year, month_number |-> month, state |-> state,
     sector |-> sector, grp |-> grp, subgroup |-> subgroup, index |-> index,
     inflation |-> inflation, base_year |-> base_year]

\* rows the join t1 can hold
RowUniverse ==
    { FactRow("Current", 2023, 2,  "All India", "Combined", "General", NULL, 150, 5, "2012"),
      FactRow("Current", 2023, 10, "All India", "Combined", "General", "",   151, 6, "2012"),
      FactRow("Current", 2022, 10, "All India", "Combined", "General", NULL, 140, 4, "2012"),
      FactRow("Current", 2021, 2,  "All India", "Combined", "General", NULL, 120, 3, "2010"),
      FactRow("Current", 2023, 2,  "Kerala",    "Rural",    "Food",    NULL, 160, 8, "2012"),
      FactRow("Current", 2022, 2,  "Kerala",    "Combined", "Food",    "",   161, 1, "2012"),
      FactRow("Back",    2023, 2,  "All India", "Combined", "General", NULL, 149, 7, "2012"),
      FactRow("Back",    2023, 10, "All India", "Combined", "General", "",   148, 9, "2012"),
      FactRow("Current", 2023, 2,  "All India", "Combined", "General", "Cereals", 130, 2, "2012") }

\* WHERE subgroup is NULL or subgroup like '' and series = 'Current'
\* (SQL: AND binds tighter than OR)
WhereClause(r) ==
    \/ r.subgroup = NULL
    \/ (r.subgroup = "" /\ r.series = "Current")

\* lines 42-46: the derived columns of one row
Normalize(r) ==
    LET month_number == zfill(IntToStr(r.month_number), 2)
        year_month == IntToStr(r.year) \o month_number
    IN  [series |-> r.series, year |-> r.year, month_number |-> month_number,
         state |-> r.state, sector |-> r.sector, grp |-> r.grp,
         subgroup |-> r.subgroup, index |-> r.index, inflation |-> r.inflation,
         base_year |-> r.base_year, year_month |-> year_month,
         year_month2 |-> Prefix(year_month, 4) \o <<Dash>> \o Suffix(year_month, 4)]

\* ----------------------------------------------------------------- pandas
Remove(s, i) == SubSeq(s, 1, i - 1) \o SubSeq(s, i + 1, Len(s))

RECURSIVE sort_values(_, _)
\* DataFrame.sort_values(col) with the default, unstable sort: every
\* ordering of the rows that is ascending in col
sort_values(df, col) ==
    IF df = <<>> THEN { <<>> }
    ELSE UNION { { <<df[i]>> \o t : t \in sort_values(Remove(df, i), col) } :
                 i \in { j \in DOMAIN df :
                         \A k \in DOMAIN df : ~StrLess(df[k][col], df[j][col]) } }

RECURSIVE SetToSeqs(_)
\* every ordering of a finite set
SetToSeqs(S) == IF S = {} THEN { <<>> }
                ELSE UNION { { <<x>> \o t : t \in SetToSeqs(S \ {x}) } : x \in S }

RECURSIVE unique(_)
\* Series.unique(): distinct values in order of first appearance
unique(s) ==
    IF s = <<>> THEN <<>>
    ELSE LET rest == unique(SubSeq(s, 1, Len(s) - 1))
             x == s[Len(s)]
         IN  IF \E i \in DOMAIN rest : rest[i] = x THEN rest ELSE Append(rest, x)

Column(df, col) == [i \in DOMAIN df |-> df[i][col]]
Range(s) == { s[i] : i \in DOMAIN s }

RECURSIVE sorted(_)
\* sorted(iterable of distinct ints), ascending
sorted(S) ==
    IF S = {} THEN <<>>
    ELSE LET m == CHOOSE x \in S : \A y \in S : x <= y
         IN  <<m>> \o sorted(S \ {m})

\* lines 20-47: every table the load can produce from the rows of t1
Load(t1) ==
    UNION { sort_values([i \in DOMAIN q |-> Normalize(q[i])], "year_month") :
            q \in SetToSeqs({ r \in t1 : WhereClause(r) }) }

\* --------------------------------------------------------------- callbacks
\* update_year_dropdown that ignores the base year
update_year_dropdown_AllBases(T, selected_base_year) ==
    <<SelectAll>> \o sorted(Range(unique(Column(T, "year"))))

\* lines 275-280
update_year_dropdown(T, selected_base_year) ==
    IF selected_base_year # None /\ selected_base_year # ""
    THEN LET filtered_years ==
                 unique(Column(SelectSeq(T, LAMBDA r : r.base_year = selected_base_year), "year"))
         IN  <<SelectAll>> \o sorted(Range(filtered_years))
    ELSE <<SelectAll>> \o sorted(Range(unique(Column(T, "year"))))

\* lines 288-291
update_sector_dropdown(T, selected_state) ==
    LET filtered_df == SelectSeq(T, LAMBDA r : r.state = selected_state)
    IN  unique(Column(filtered_df, "sector"))

\* update_group_dropdown without the test for None
update_group_dropdown_NoNone(T, selected_sector) ==
    unique(Column(SelectSeq(T, LAMBDA r : r.sector = selected_sector), "grp"))

\* lines 298-303
update_group_dropdown(T, selected_sector) ==
    LET filtered_df == IF selected_sector # None
                       THEN SelectSeq(T, LAMBDA r : r.sector = selected_sector)
                       ELSE T
    IN  unique(Column(filtered_df, "grp"))

\* ResolveYears that never expands the sentinel
ResolveYears_NoExpand(T, selected_years) ==
    { year \in selected_years : year # SelectAll }

\* lines 320-323 and 404-407: the local selected_years after the if/else
ResolveYears(T, selected_years) ==
    IF SelectAll \in selected_years
    THEN Range(unique(Column(T, "year")))
    ELSE { year \in selected_years : year # SelectAll }

\* PlotRows without the base_year test
PlotRows_NoBase(T, state_, sector_, group_, selected_years, base_) ==
    LET resolved == { r.year : r \in { T[i] : i \in DOMAIN T } }
        by_year == SelectSeq(T, LAMBDA r : r.year \in
                       (IF SelectAll \in selected_years THEN resolved
                        ELSE selected_years \ {SelectAll}))
        by_rest == SelectSeq(by_year, LAMBDA r : /\ r.state = state_
                                                 /\ r.sector = sector_
                                                 /\ r.grp = group_)
    IN  sort_values(by_rest, "year_month2")

\* PlotRows without the state test
PlotRows_NoState(T, state_, sector_, group_, selected_years, base_) ==
    LET resolved == { r.year : r \in { T[i] : i \in DOMAIN T } }
        by_year == SelectSeq(T, LAMBDA r : r.year \in
                       (IF SelectAll \in selected_years THEN resolved
                        ELSE selected_years \ {SelectAll}))
        by_rest == SelectSeq(by_year, LAMBDA r : /\ r.sector = sector_
                                                 /\ r.grp = group_
                                                 /\ r.base_year = base_)
    IN  sort_values(by_rest, "year_month2")

\* lines 325-328: the local filtered_df of update_plot, one per outcome of
\* the sort
PlotRows(T, state_, sector_, group_, selected_years, base_) ==
    LET resolved == ResolveYears(T, selected_years)
        by_year == SelectSeq(T, LAMBDA r : r.year \in resolved)
        by_state == SelectSeq(by_year, LAMBDA r : r.state = state_)
        by_rest == SelectSeq(by_state, LAMBDA r : /\ r.sector = sector_
                                               /\ r.grp = group_
                                               /\ r.base_year = base_)
    IN  sort_values(by_rest, "year_month2")

\* lines 409-411: the local filtered_df of download_plot
DownloadRows(T, state_, sector_, group_, selected_years, base_) ==
    LET by_state == SelectSeq(T, LAMBDA r : r.state = state_)
        by_rest == SelectSeq(by_state, LAMBDA r : /\ r.sector = sector_
                                               /\ r.grp = group_
                                               /\ r.base_year = base_)
    IN  sort_values(by_rest, "year_month2")

\* go.Figure() with no trace
EmptyFigure == [trace |-> None, x |-> <<>>, y |-> <<>>, yaxis_title |-> None,
                color |-> None]

IndexFigure(df) ==
    [trace |-> "Index", x |-> Column(df, "year_month2"), y |-> Column(df, "index"),
     yaxis_title |-> "Index", color |-> "#0F4366"]

\* InflationFigure that plots the index column
InflationFigure_IndexColumn(df) ==
    [trace |-> "Inflation", x |-> Column(df, "year_month2"),
     y |-> Column(df, "index"), yaxis_title |-> "Inflation (in %)",
     color |-> "#EF553B"]

InflationFigure(df) ==
    [trace |-> "Inflation", x |-> Column(df, "year_month2"),
     y |-> Column(df, "inflation"), yaxis_title |-> "Inflation (in %)",
     color |-> "#EF553B"]

\* lines 331-379: the figure update_plot builds from its filtered_df
PlotFigure(df, plot_type_) ==
    IF plot_type_ = "Index" THEN IndexFigure(df) ELSE InflationFigure(df)

\* lines 413-459: the figure download_plot builds from its filtered_df
DownloadFigure(df, plot_type_) ==
    IF plot_type_ = "Index" THEN IndexFigure(df)
    ELSE IF plot_type_ = "Inflation" THEN InflationFigure(df)
    ELSE EmptyFigure

\* the test of line 318 dropped: update_plot always renders
Renders_Always(n, state_, sector_, group_, plot_type_) == TRUE

\* line 318
Renders(n, state_, sector_, group_, plot_type_) ==
    \/ n > 0
    \/ <<state_, sector_, group_, plot_type_>> =
           <<default_state, default_sector, default_group, default_plot_type>>

\* lines 465-471: the attachment made of the figure
send_bytes(fig) == [filename |-> "plot.svg", format |-> "svg", fig |-> fig]

\* ------------------------------------------------------------------- state
VARIABLES
    cpi_data,        \* the process-wide table
    state, sector, group, plot_type, years, base,      \* the menus' values
    sector_options, group_options, year_options,       \* the menus' options
    n_clicks, download_clicks,                         \* the buttons
    figure,          \* plot-output.figure
    download,        \* download.data
    call,            \* the callback the latest event ran, with its locals
    events           \* events of the session so far

vars == <<cpi_data, state, sector, group, plot_type, years, base,
          sector_options, group_options, year_options, n_clicks,
          download_clicks, figure, download, call, events>>

menus == <<state, sector, group, plot_type, years, base>>
options == <<sector_options, group_options, year_options>>
outputs == <<figure, download>>
buttons == <<n_clicks, download_clicks>>

\* a callback that has returned; selected_years and filtered_df are the
\* locals of update_plot and download_plot
Call(fn, selected_years, filtered_df) ==
    [fn |-> fn, selected_years |-> selected_years, filtered_df |-> filtered_df]
MenuCall(fn) == Call(fn, {}, <<>>)
NoCall == MenuCall(None)

\* lines 317-382: update_plot on the menus' values
RunUpdatePlot(n) ==
    IF Renders(n, state, sector, group, plot_type)
    THEN \E df \in PlotRows(cpi_data, state, sector, group, years, base) :
             /\ call' = Call("update_plot", ResolveYears(cpi_data, years), df)
             /\ figure' = PlotFigure(df, plot_type)
    ELSE /\ call' = MenuCall("update_plot")
         /\ figure' = EmptyFigure

\* lines 396-473: download_plot on the menus' values, triggered by the
\* download button
RunDownloadPlot ==
    \E df \in DownloadRows(cpi_data, state, sector, group, years, base) :
        /\ call' = Call("download_plot", ResolveYears(cpi_data, years), df)
        /\ download' = send_bytes(DownloadFigure(df, plot_type))

Tables == UNION { Load(t1) : t1 \in { S \in SUBSET RowUniverse : Cardinality(S) <= MaxRows } }

\* lines 78-270 and the initial calls of the five callbacks on page load
Init ==
    /\ cpi_data \in Tables
    /\ state = default_state
    /\ sector = default_sector
    /\ group = default_group
    /\ plot_type = default_plot_type
    /\ years = default_years
    /\ base = default_base
    /\ year_options = update_year_dropdown(cpi_data, default_base)
    /\ sector_options = update_sector_dropdown(cpi_data, default_state)
    /\ group_options = update_group_dropdown(cpi_data, default_sector)
    /\ n_clicks = 0
    /\ download_clicks = 0
    /\ \E df \in PlotRows(cpi_data, default_state, default_sector, default_group,
                          default_years, default_base) :
           /\ call = Call("update_plot", ResolveYears(cpi_data, default_years), df)
           /\ figure = PlotFigure(df, default_plot_type)
    /\ download = None
    /\ events = 0

\* ------------------------------------------------------------ the browser
\* A menu whose options were replaced keeps a value that is no longer among
\* them, or drops it, depending on the dash release that serves the page.
Settle(value, opts) ==
    IF value = None \/ value \in Range(opts) THEN { value } ELSE { value, None }

SettleMulti(values, opts) ==
    IF values \subseteq Range(opts) THEN { values }
    ELSE { values, values \cap Range(opts) }

\* the sector menu's value became new_sector: update_group_dropdown runs
SectorBecomes(new_sector) ==
    /\ sector' = new_sector
    /\ group_options' = update_group_dropdown(cpi_data, new_sector)
    /\ group' \in Settle(group, group_options')
    /\ call' = MenuCall("update_group_dropdown")

\* line 99: the states the state menu offers
StateOptions == { cpi_data[i].state : i \in DOMAIN cpi_data }
\* line 113
BaseOptions == { cpi_data[i].base_year : i \in DOMAIN cpi_data }
\* lines 154-157
PlotTypeOptions == { "Index", "Inflation" }

Event == /\ events < MaxEvents
         /\ events' = events + 1

ChangeState(s) ==
    /\ Event
    /\ s \in StateOptions /\ s # state
    /\ state' = s
    /\ sector_options' = update_sector_dropdown(cpi_data, s)
    /\ \E new_sector \in Settle(sector, sector_options') :
           IF new_sector = sector
           THEN /\ call' = MenuCall("update_sector_dropdown")
                /\ UNCHANGED <<sector, group, group_options>>
           ELSE SectorBecomes(new_sector)
    /\ UNCHANGED <<cpi_data, plot_type, years, base, year_options, buttons, outputs>>

ChangeSector(s) ==
    /\ Event
    /\ s \in Range(sector_options) /\ s # sector
    /\ SectorBecomes(s)
    /\ UNCHANGED <<cpi_data, state, plot_type, years, base, sector_options,
                   year_options, buttons, outputs>>

ChangeGroup(g) ==
    /\ Event
    /\ g \in Range(group_options) /\ g # group
    /\ group' = g
    /\ call' = NoCall
    /\ UNCHANGED <<cpi_data, state, sector, plot_type, years, base, options,
                   buttons, outputs>>

ChangePlotType(p) ==
    /\ Event
    /\ p \in PlotTypeOptions /\ p # plot_type
    /\ plot_type' = p
    /\ call' = NoCall
    /\ UNCHANGED <<cpi_data, state, sector, group, years, base, options,
                   buttons, outputs>>

ChangeBase(b) ==
    /\ Event
    /\ b \in BaseOptions /\ b # base
    /\ base' = b
    /\ year_options' = update_year_dropdown(cpi_data, b)
    /\ years' \in SettleMulti(years, year_options')
    /\ call' = MenuCall("update_year_dropdown")
    /\ UNCHANGED <<cpi_data, state, sector, group, plot_type, sector_options,
                   group_options, buttons, outputs>>

ChangeYears(ys) ==
    /\ Event
    /\ ys \subseteq Range(year_options) /\ ys # years
    /\ years' = ys
    /\ call' = NoCall
    /\ UNCHANGED <<cpi_data, state, sector, group, plot_type, base, options,
                   buttons, outputs>>

\* Apply that filters the process-wide table in place
Apply_InPlace ==
    /\ Event
    /\ n_clicks' = n_clicks + 1
    /\ RunUpdatePlot(n_clicks')
    /\ cpi_data' = call'.filtered_df
    /\ UNCHANGED <<menus, options, download_clicks, download>>

Apply ==
    /\ Event
    /\ n_clicks' = n_clicks + 1
    /\ RunUpdatePlot(n_clicks')
    /\ UNCHANGED <<cpi_data, menus, options, download_clicks, download>>

Download ==
    /\ Event
    /\ download_clicks' = download_clicks + 1
    /\ RunDownloadPlot
    /\ UNCHANGED <<cpi_data, menus, options, n_clicks, figure>>

Next ==
    \/ \E s \in StateOptions : ChangeState(s)
    \/ \E s \in Range(sector_options) : ChangeSector(s)
    \/ \E g \in Range(group_options) : ChangeGroup(g)
    \/ \E p \in PlotTypeOptions : ChangePlotType(p)
    \/ \E b \in BaseOptions : ChangeBase(b)
    \/ \E ys \in SUBSET Range(year_options) : ChangeYears(ys)
    \/ Apply
    \/ Download

Spec == Init /\ [][Next]_vars

\* ------------------------------------------------- requests to the server
\* The menu callbacks are endpoints of the server: a request carries any
\* input value, among them None, which no menu of the page can send.
ArgStates == { default_state, "Kerala", None }
ArgSectors == { default_sector, "Rural", None }
ArgBases == { default_base, "2010", None, "" }

RequestYearDropdown(b) ==
    /\ Event
    /\ b \in ArgBases
    /\ base' = b
    /\ year_options' = update_year_dropdown(cpi_data, b)
    /\ call' = MenuCall("update_year_dropdown")
    /\ UNCHANGED <<cpi_data, state, sector, group, plot_type, years,
                   sector_options, group_options, buttons, outputs>>

RequestSectorDropdown(s) ==
    /\ Event
    /\ s \in ArgStates
    /\ state' = s
    /\ sector_options' = update_sector_dropdown(cpi_data, s)
    /\ call' = MenuCall("update_sector_dropdown")
    /\ UNCHANGED <<cpi_data, sector, group, plot_type, years, base,
                   group_options, year_options, buttons, outputs>>

RequestGroupDropdown(s) ==
    /\ Event
    /\ s \in ArgSectors
    /\ sector' = s
    /\ group_options' = update_group_dropdown(cpi_data, s)
    /\ call' = MenuCall("update_group_dropdown")
    /\ UNCHANGED <<cpi_data, state, group, plot_type, years, base,
                   sector_options, year_options, buttons, outputs>>

NextDerive ==
    \/ \E b \in ArgBases : RequestYearDropdown(b)
    \/ \E s \in ArgStates : RequestSectorDropdown(s)
    \/ \E s \in ArgSectors : RequestGroupDropdown(s)

SpecDerive == Init /\ [][NextDerive]_vars

\* update_plot is an endpoint too: its first call, with n_clicks = 0, is the
\* one a page load makes.  The menus of this layout start at the defaults; a
\* request can carry any values.  PageLoad is a load of the page whose menus
\* hold the given values: the five callbacks make their initial calls, and
\* the session goes on from there.
PageStates == { default_state, "Kerala" }
PageSectors == { default_sector, "Rural" }
PageGroups == { default_group, "Food" }

PageLoad(state_, sector_, group_, plot_type_) ==
    /\ events = 0              \* a session starts with the load of the page
    /\ Event
    /\ state_ \in PageStates /\ sector_ \in PageSectors
    /\ group_ \in PageGroups /\ plot_type_ \in PlotTypeOptions
    /\ state' = state_
    /\ sector' = sector_
    /\ group' = group_
    /\ plot_type' = plot_type_
    /\ years' = default_years
    /\ base' = default_base
    /\ year_options' = update_year_dropdown(cpi_data, default_base)
    /\ sector_options' = update_sector_dropdown(cpi_data, state_)
    /\ group_options' = update_group_dropdown(cpi_data, sector_)
    /\ n_clicks' = 0
    /\ download_clicks' = 0
    /\ download' = None
    /\ IF Renders(0, state_, sector_, group_, plot_type_)
       THEN \E df \in PlotRows(cpi_data, state_, sector_, group_, default_years,
                               default_base) :
                /\ call' = Call("update_plot", ResolveYears(cpi_data, default_years), df)
                /\ figure' = PlotFigure(df, plot_type_)
       ELSE /\ call' = MenuCall("update_plot")
            /\ figure' = EmptyFigure
    /\ UNCHANGED cpi_data

NextPage ==
    \/ Next
    \/ \E st \in PageStates, se \in PageSectors, g \in PageGroups, p \in PlotTypeOptions :
           PageLoad(st, se, g, p)

SpecPage == Init /\ [][NextPage]_vars

\* ================================================================ claims
Rows == { cpi_data[i] : i \in DOMAIN cpi_data }
Count(seq, x) == Cardinality({ i \in DOMAIN seq : seq[i] = x })
SameBag(a, b) == /\ Len(a) = Len(b)
                 /\ \A x \in Range(a) \cup Range(b) : Count(a, x) = Count(b, x)

RECURSIVE StrToInt(_)
StrToInt(s) == IF s = <<>> THEN 0
               ELSE 10 * StrToInt(SubSeq(s, 1, Len(s) - 1)) + (s[Len(s)] - 48)

\* Apply has just run on the menus' values
Applied == call.fn = "update_plot" /\ n_clicks > 0
\* Download has just run on the menus' values
Downloaded == call.fn = "download_plot"
\* the chart the latest button callback built
Chart == IF call.fn = "download_plot" THEN download.fig ELSE figure
Series(fig) == [i \in DOMAIN fig.x |-> <<fig.x[i], fig.y[i]>>]
YValue(r) == IF plot_type = "Index" THEN r.index ELSE r.inflation
PointOf(r) == <<r.year_month2, YValue(r)>>

YearsInTable == { r.year : r \in Rows }
YearsOfBase(b) == { r.year : r \in { q \in Rows : q.base_year = b } }
ResolvedYearSet == IF SelectAll \in years THEN YearsInTable ELSE years \ {SelectAll}

InSpec(r) == /\ r.state = state
             /\ r.sector = sector
             /\ r.grp = group
             /\ r.base_year = base
             /\ r.year \in ResolvedYearSet

\* C1: the series Apply plots consists of exactly the rows of the table
\* whose state, sector, group and base year equal the FilterSpec's and whose
\* year is in the resolved year set: the same rows, each as often as the
\* table holds it, and no other row.
C1_ApplyPlotsExactlyMatchingRows ==
    Applied =>
        LET matching == SelectSeq(cpi_data, InSpec)
        IN  /\ SameBag(call.filtered_df, matching)
            /\ SameBag(Series(figure), [i \in DOMAIN matching |-> PointOf(matching[i])])

C1_Witness ==
    /\ Applied
    /\ SelectAll \notin years
    /\ figure.x # <<>>
    /\ \E r \in Rows : r.state = state /\ r.sector = sector /\ r.grp = group
                       /\ r.base_year = base /\ r.year \notin years
    /\ \E r \in Rows : r.base_year # base

\* C2: for every FilterSpec the Download action exports the series the Apply
\* action renders for that FilterSpec: the exported (x, y) sequence is one
\* that update_plot can produce from the same menu values.
C2_DownloadExportsAppliedSeries ==
    Downloaded =>
        Series(download.fig) \in
            { Series(PlotFigure(df, plot_type)) :
              df \in PlotRows(cpi_data, state, sector, group, years, base) }

\* C3: every row of the loaded table has a null or empty subgroup and the
\* series label 'Current'.
C3_OnlyCurrentSeriesLoaded ==
    \A r \in Rows : r.subgroup \in { NULL, "" } /\ r.series = "Current"

\* C4: the FilterSpec a click on Apply or Download hands to the selection is
\* a valid combination: its sector occurs with its state on some row and its
\* group occurs with its sector on some row.  (Stated for tables that hold
\* the default combination, so that the page starts from a valid one.)
C4_DefaultsValid ==
    \E r \in Rows : /\ r.state = default_state /\ r.sector = default_sector
                    /\ r.grp = default_group /\ r.base_year = default_base

C4_ClickUsesValidCombination ==
    ((Applied \/ Downloaded) /\ C4_DefaultsValid) =>
        /\ \E r \in Rows : r.state = state /\ r.sector = sector
        /\ \E r \in Rows : r.sector = sector /\ r.grp = group

YearMonthKey(r) == r.year * 100 + StrToInt(r.month_number)

\* C5: the series Apply and Download produce is non-decreasing in
\* year_month_key = year*100 + month_number: each point's row is not later
\* than the next point's row.
C5_SeriesAscendingInYearMonthKey ==
    (call.fn \in { "update_plot", "download_plot" }) =>
        /\ Chart.x = Column(call.filtered_df, "year_month2")
        /\ \A i \in 1..(Len(call.filtered_df) - 1) :
               YearMonthKey(call.filtered_df[i]) <= YearMonthKey(call.filtered_df[i + 1])

C5_Witness ==
    /\ call.fn \in { "update_plot", "download_plot" }
    /\ events > 0
    /\ \E i \in 1..(Len(Chart.x) - 1) :
           /\ call.filtered_df[i].year = call.filtered_df[i + 1].year
           /\ StrToInt(call.filtered_df[i].month_number) < 10
           /\ StrToInt(call.filtered_df[i + 1].month_number) >= 10

\* C6: update_sector_dropdown with the state unset (None) returns the
\* sectors of the whole table.
C6_UnsetStateOffersAllSectors ==
    (call.fn = "update_sector_dropdown" /\ state = None) =>
        Range(sector_options) = { r.sector : r \in Rows }

\* C7 as written: with the sentinel selected, the resolved year set is
\* exactly the set of years of the rows whose base year is the FilterSpec's.
C7_AllResolvesToYearsOfBase ==
    (call.fn \in { "update_plot", "download_plot" } /\ SelectAll \in years) =>
        call.selected_years = YearsOfBase(base)

\* C7 as amended: with the sentinel selected, the resolved year set is
\* exactly the set of years present in the table, whatever their base year;
\* it holds every year of the rows with the FilterSpec's base year.
C7_AllResolvesToYearsOfTable ==
    (call.fn \in { "update_plot", "download_plot" } /\ SelectAll \in years) =>
        /\ call.selected_years = YearsInTable
        /\ YearsOfBase(base) \subseteq call.selected_years

C7_Witness ==
    /\ Applied
    /\ SelectAll \in years
    /\ YearsOfBase(base) # {}
    /\ YearsOfBase(base) # YearsInTable
    /\ call.selected_years = YearsInTable

BaseUnset == base \in { None, "" }

\* C8: update_year_dropdown returns the sentinel first, then the distinct
\* years of the rows with the given base year, ascending, each once; with the
\* base year unset, the sentinel and then every distinct year of the table,
\* ascending.
C8_YearMenuSentinelThenAscendingYears ==
    (call.fn = "update_year_dropdown") =>
        /\ Len(year_options) >= 1
        /\ year_options[1] = SelectAll
        /\ \A i \in 2..(Len(year_options) - 1) : year_options[i] < year_options[i + 1]
        /\ { year_options[i] : i \in 2..Len(year_options) } =
               (IF BaseUnset THEN YearsInTable ELSE YearsOfBase(base))

C8_Witness ==
    /\ call.fn = "update_year_dropdown"
    /\ ~BaseUnset
    /\ Len(year_options) >= 3
    /\ YearsOfBase(base) # YearsInTable

\* C9: a FilterSpec that matches no row is no error: Apply returns a chart
\* whose series is empty.
C9_NoMatchGivesEmptyChart ==
    (Applied /\ ~\E r \in Rows : InSpec(r)) =>
        /\ figure.trace \in { "Index", "Inflation" }
        /\ figure.x = <<>>
        /\ figure.y = <<>>

C9_Witness ==
    /\ Applied
    /\ state \notin { r.state : r \in Rows }
    /\ \E r \in Rows : r.sector = sector /\ r.grp = group /\ r.base_year = base
                       /\ r.year \in ResolvedYearSet
    /\ figure.x = <<>>

YearMonthDisplay(r) == IntToStr(r.year) \o <<Dash>> \o r.month_number

\* C10: the chart keeps the selected rows one to one and in order: as many
\* points as selected rows, the i-th label the i-th row's year_month_display,
\* the i-th value the i-th row's index_value for Index and inflation_value
\* for Inflation.
C10_ProjectionOneToOneInOrder ==
    (call.fn \in { "update_plot", "download_plot" }) =>
        /\ Len(Chart.x) = Len(call.filtered_df)
        /\ Len(Chart.y) = Len(call.filtered_df)
        /\ \A i \in DOMAIN call.filtered_df :
               /\ Chart.x[i] = YearMonthDisplay(call.filtered_df[i])
               /\ plot_type = "Index" => Chart.y[i] = call.filtered_df[i].index
               /\ plot_type = "Inflation" => Chart.y[i] = call.filtered_df[i].inflation

C10_Witness ==
    /\ Downloaded
    /\ plot_type = "Inflation"
    /\ Len(download.fig.x) >= 2
    /\ download.fig.y[1] = call.filtered_df[1].inflation

C12_GroupMenuDependsOnSectorOnly ==
    Range(group_options) =
        IF sector = None THEN { r.grp : r \in Rows }
        ELSE { r.grp : r \in { q \in Rows : q.sector = sector } }

C12_Witness ==
    /\ call.fn = "update_group_dropdown"
    /\ state = "Kerala"
    /\ \E r \in Rows : r.state = state /\ r.sector = sector
    /\ \E g \in Range(group_options) :
           ~\E r \in Rows : r.state = state /\ r.sector = sector /\ r.grp = g

Defaults == <<default_state, default_sector, default_group, default_plot_type>>

\* C13: the displayed chart changes only on a page load and on Apply: a
\* change of a menu and a Download leave it as it is.  The call the page
\* load makes (n_clicks = 0) renders the chart of the default FilterSpec
\* when the menus hold the defaults and returns an empty figure when the
\* state, sector, group or indicator is not the default.
C13_ChartChangesOnLoadAndApplyOnly ==
    /\ [] ( (call.fn = "update_plot" /\ n_clicks = 0) =>
              IF <<state, sector, group, plot_type>> = Defaults
              THEN LET matching == SelectSeq(cpi_data, InSpec)
                   IN  /\ figure.trace = "Index"
                       /\ years = default_years /\ base = default_base
                       /\ SameBag(Series(figure),
                                  [i \in DOMAIN matching |-> PointOf(matching[i])])
              ELSE figure = EmptyFigure )
    /\ [][ /\ call'.fn # "update_plot" => figure' = figure
           /\ call'.fn = "update_plot" => (n_clicks' = n_clicks + 1 \/ n_clicks' = 0)
           /\ download_clicks' > download_clicks => figure' = figure
         ]_vars

C13_Witness ==
    /\ call.fn = "update_plot"
    /\ n_clicks = 0
    /\ events > 0
    /\ <<state, sector, group, plot_type>> # Defaults
    /\ \E r \in Rows : InSpec(r)
    /\ figure = EmptyFigure
====
